---- MODULE Spec2Model ----
(***************************************************************************)
(* Model of enet::Host<T> (src/src/host.rs): the peer table owned by the   *)
(* native ENetHost, the per-peer attached payload, the deferred-cleanup    *)
(* marker `disconnect_drop`, the limits stored in the native host, and    *)
(* the operations service, check_events, connect, peer/peer_mut, the       *)
(* indexing operators, flush, the limit setters and getters, and Drop,     *)
(* with the conversions of ChannelLimit, BandwidthLimit and the timeout.   *)
(*                                                                         *)
(* The native transport (enet_sys) is the environment: its calls are       *)
(* nondeterministic choices over the results the library can produce for   *)
(* the current state of the peer table.                                    *)
(***************************************************************************)
EXTENDS Integers, Sequences, FiniteSets, TLC

\* ------------------------------------------------------------------ bounds
MaxPeers == 2
\* the timeouts a caller passes to service: up to MaxHigh * 2^32 + MaxLow
\* whole milliseconds
MaxHigh == 1
MaxLow == 30
\* the largest channelLimit value looked at, above MAX_COUNT
MaxWire == 256

\* ------------------------------------------------- native memory layout
\* (*self.inner).peers: the address of slot 0 of the contiguous peer table.
PeersBase == 64
\* std::mem::size_of::<ENetPeer>()
SizeofENetPeer == 8
\* a null *mut ENetPeer
NullPeer == 0

\* Option<X>
None == <<>>
Some(x) == <<x>>

\* T is opaque to Host<T>: the host never reads or compares a payload, it
\* only replaces one by None.  One value stands for every value of T.
Payloads == {"payload"}
\* the values a caller may pass to set_data
PayloadArgs == {None} \cup {Some(v) : v \in Payloads}
\* ids a caller may pass: every valid index and at least one invalid one
PeerIDs == 0..MaxPeers
\* the negative result code of the transport's poll calls: the library
\* reports every failure as -1
ErrorCodes == {-1}

VARIABLES
    alive,            \* the Host value exists (FALSE once dropped)
    peerCount,        \* (*inner).peerCount
    peerState,        \* native connection state of each slot, by address
    data,             \* attached payload of each slot, by address
    disconnect_drop,  \* Host::disconnect_drop : Option<PeerID>
    last,             \* the last call: its name, argument, return value and
                      \* what it exchanged with the transport
    lastPollDisc,     \* Some(id) when the last service/check_events call
                      \* returned a Disconnect event for id, else None
    owner,            \* provenance of data[a]: "none"; "occ" (attached
                      \* between the Connect and the Disconnect event of
                      \* an occupant, and the slot was not given to the
                      \* caller for a later occupant since); "cur"
                      \* (attached otherwise since the slot's present
                      \* occupant took it); "prev" (any other)
    discEvt,          \* a Disconnect event was returned for the slot and
                      \* the slot has not been handed over since
    issued,           \* PeerIDs handed out so far
    config            \* the limits stored in the native host: channelLimit,
                      \* incomingBandwidth, outgoingBandwidth

vars == <<alive, peerCount, peerState, data, disconnect_drop, last,
          lastPollDisc, owner, discEvt, issued, config>>

\* ------------------------------------------------------------ peer table
\* (*self.inner).peers.offset(idx)
PeerAddr(idx) == PeersBase + idx * SizeofENetPeer

\* the addresses of the slots of a table of n peers
Slots(n) == {PeerAddr(i) : i \in 0..(n - 1)}

peer_count == peerCount

\* Host::peer_mut with the last slot of the table out of bounds
peer_mut_short(idx) == IF idx + 1 >= peer_count THEN None ELSE Some(PeerAddr(idx))

peer_mut(idx) == IF idx >= peer_count THEN None ELSE Some(PeerAddr(idx))

\* Host::peer with the bound check off by one
peer_off_by_one(idx) == IF idx > peer_count THEN None ELSE Some(PeerAddr(idx))

peer(idx) == IF idx >= peer_count THEN None ELSE Some(PeerAddr(idx))

\* Host::peer_id without the subtraction of the table's address
peer_id_no_base(p) == p \div SizeofENetPeer

\* Host::peer_id without the division by the slot size
peer_id_bytes(p) == p - PeersBase

peer_id(p) == (p - PeersBase) \div SizeofENetPeer

\* slice::from_raw_parts_mut(peers, peerCount): every slot, live or not
peers_mut == Slots(peerCount)

\* Peer::set_data(value): replaces the payload stored in the native slot
set_data(d, p, value) == [d EXCEPT ![p] = value]

\* ------------------------------------------------------ native transport
\* The states of a native peer slot the host can tell apart:
\*   "disconnected"  free, may be handed to a new connection
\*   "connecting"    allocated by enet_host_connect, handshake running
\*   "accepting"     allocated for an incoming connection, handshake running
\*   "connected"     its Connect event has been delivered
PeerStates == {"disconnected", "connecting", "accepting", "connected"}

NoSysEvent == [type |-> "NONE", peer |-> NullPeer]

\* the lowest free slot of the table, which is the one the transport
\* allocates next, or NullPeer when every slot is taken
FirstFree(ps) ==
    LET free == {a \in DOMAIN ps : ps[a] = "disconnected"}
    IN  IF free = {} THEN NullPeer
        ELSE CHOOSE a \in free : \A b \in free : a <= b

\* What servicing the socket can do to the table without reporting an event:
\* nothing, take the free slot for an incoming connection, or silently reset
\* a slot whose incoming handshake failed.  Only a call that reads the
\* socket (receives) can do the latter two.
TransportInternal(ps, receives) ==
    {ps}
    \cup (IF receives /\ FirstFree(ps) # NullPeer
          THEN {[ps EXCEPT ![FirstFree(ps)] = "accepting"]}
          ELSE {})
    \cup (IF receives
          THEN {[ps EXCEPT ![a] = "disconnected"] :
                    a \in {b \in DOMAIN ps : ps[b] = "accepting"}}
          ELSE {})

\* The events the transport can dispatch from table state ps, each with the
\* table state after the dispatch.
TransportEvents(ps) ==
    {[peers |-> [ps EXCEPT ![a] = "connected"], res |-> 1,
      ev |-> [type |-> "CONNECT", peer |-> a]] :
        a \in {b \in DOMAIN ps : ps[b] \in {"connecting", "accepting"}}}
    \cup
    {[peers |-> ps, res |-> 1, ev |-> [type |-> "RECEIVE", peer |-> a]] :
        a \in {b \in DOMAIN ps : ps[b] = "connected"}}
    \cup
    {[peers |-> [ps EXCEPT ![a] = "disconnected"], res |-> 1,
      ev |-> [type |-> "DISCONNECT", peer |-> a]] :
        a \in {b \in DOMAIN ps : ps[b] \in {"connecting", "connected"}}}

\* Every outcome of one poll of the transport: an error code, no event, or
\* one event.  On res <= 0 the event buffer stays uninitialised; the host
\* never reads it then.
TransportPoll(ps, receives) ==
    UNION {
        {[peers |-> q, res |-> c, ev |-> NoSysEvent] : c \in ErrorCodes \cup {0}}
        \cup TransportEvents(q) :
        q \in TransportInternal(ps, receives)}

\* enet_host_service(inner, &mut sys_event, timeout)
enet_host_service(ps) == TransportPoll(ps, TRUE)

\* enet_host_check_events(inner, &mut sys_event): dispatches what is queued,
\* never reads the socket
enet_host_check_events(ps) == TransportPoll(ps, FALSE)

\* enet_host_connect(inner, address, channel_count, user_data): the lowest
\* free slot, now connecting, or null (no free slot, or no memory)
enet_host_connect(ps) ==
    {[peers |-> ps, res |-> NullPeer]}
    \cup (IF FirstFree(ps) # NullPeer
          THEN {[peers |-> [ps EXCEPT ![FirstFree(ps)] = "connecting"],
                 res |-> FirstFree(ps)]}
          ELSE {})

\* ----------------------------------------------------------------- limits
\* ENET_PROTOCOL_MAXIMUM_CHANNEL_COUNT
MAX_COUNT == 255
\* ENET_PROTOCOL_MINIMUM_CHANNEL_COUNT
MIN_COUNT == 1

\* ChannelLimit::Maximum
Maximum == [tag |-> "Maximum", n |-> 0]
\* BandwidthLimit::Unlimited
Unlimited == [tag |-> "Unlimited", n |-> 0]
\* ChannelLimit::Limited(l) and BandwidthLimit::Limited(l)
Limited(l) == [tag |-> "Limited", n |-> l]
\* panic!("ChannelLimit::from_enet_usize: got 0") in place of a ChannelLimit
LimitPanic == [tag |-> "Panic", n |-> 0]

\* ChannelLimit::to_enet_val with Maximum sent as the protocol's minimum
to_enet_val_minimum(limit) ==
    IF limit.tag = "Maximum" THEN MIN_COUNT ELSE limit.n

to_enet_val(limit) ==
    IF limit.tag = "Maximum" THEN 0 ELSE limit.n

\* ChannelLimit::from_enet_val with the arm for 0 returning Limited(0)
from_enet_val_zero_limited(enet_val) ==
    IF enet_val = MAX_COUNT THEN Maximum ELSE Limited(enet_val)

\* the arms of the match in their order: MAX_COUNT, 0, any other value
from_enet_val(enet_val) ==
    IF enet_val = MAX_COUNT THEN Maximum
    ELSE IF enet_val = 0 THEN LimitPanic
    ELSE Limited(enet_val)

to_enet_u32(limit) ==
    IF limit.tag = "Unlimited" THEN 0 ELSE limit.n

\* enet_host_create(...): the limits of a host created with the maximum
\* channel count and unlimited bandwidth
enet_host_create ==
    [channelLimit |-> MAX_COUNT, incomingBandwidth |-> 0,
     outgoingBandwidth |-> 0]

\* enet_host_channel_limit(inner, channelLimit): the transport stores the
\* limit clamped to the protocol's range, 0 asking for the maximum
enet_host_channel_limit(cfg, channelLimit) ==
    [cfg EXCEPT !.channelLimit =
        IF channelLimit = 0 \/ channelLimit > MAX_COUNT THEN MAX_COUNT
        ELSE IF channelLimit < MIN_COUNT THEN MIN_COUNT
        ELSE channelLimit]

\* enet_host_bandwidth_limit(inner, incomingBandwidth, outgoingBandwidth):
\* the transport stores both values as given
enet_host_bandwidth_limit(cfg, incomingBandwidth, outgoingBandwidth) ==
    [cfg EXCEPT !.incomingBandwidth = incomingBandwidth,
                !.outgoingBandwidth = outgoingBandwidth]

\* every value the channelLimit field is looked at with
WireValues == 0..MaxWire

\* every ChannelLimit whose conversion is looked at
AllChannelLimits == {Maximum} \cup {Limited(n) : n \in WireValues}

\* --------------------------------------------------------------- timeouts
\* A Duration, by its whole milliseconds hi * 2^32 + lo, written in base 2^32
\* because 2^32 lies beyond the integers of TLC, and by sub, its nanoseconds
\* beyond the last whole millisecond.
Durations == [hi : 0..MaxHigh, lo : 0..MaxLow, sub : {0, 999999}]

\* Duration::as_millis(): the whole milliseconds as a u128, in base 2^32
as_millis(d) == [hi |-> d.hi, lo |-> d.lo]

\* `as u32` of a u128: the low 32 bits
as_u32(m) == m.lo

\* timeout.as_millis() as u32, the timeout service hands to the transport
service_timeout(timeout) == as_u32(as_millis(timeout))

\* the channel limits a caller passes: Maximum, and Limited(n) for counts
\* below, inside and above the protocol's range
ChannelLimits ==
    {Maximum} \cup {Limited(n) : n \in {0, MIN_COUNT, MAX_COUNT, MAX_COUNT + 1}}

\* the bandwidth limits a caller passes, in bytes per second: different
\* values for the two directions
IncomingLimits == {Unlimited, Limited(1000)}
OutgoingLimits == {Unlimited, Limited(2000)}

\* --------------------------------------------------------- return values
\* The record of a call.  tag/code/peer_id/kind/peer are the return value;
\* res and ev are what the transport's poll returned; marker is
\* disconnect_drop at the moment the transport's poll ran; polls counts the
\* transport polls of the call; atDestroy is the payload table at the moment
\* enet_host_destroy ran; handle is the peer enet_host_connect returned;
\* cleared is the set of slots whose payload the call removed; given is the
\* tuple of limits or durations the caller passed; sent is the tuple of wire
\* values the call handed to the transport.
NoCall ==
    [name |-> "new", arg |-> 0, tag |-> "Unit", code |-> 0, peer_id |-> 0,
     kind |-> "-", peer |-> NullPeer, res |-> 0, ev |-> NoSysEvent,
     marker |-> None, polls |-> 0, atDestroy |-> None, handle |-> NullPeer,
     cleared |-> {}, given |-> <<>>, sent |-> <<>>]

RetErr(c) == [NoCall EXCEPT !.tag = "Err", !.code = c]
RetOkNone == [NoCall EXCEPT !.tag = "OkNone"]
RetOkEvent(ev) == [NoCall EXCEPT !.tag = "OkEvent", !.peer_id = ev.peer_id, !.kind = ev.kind]
RetOkPeer(p, id) == [NoCall EXCEPT !.tag = "OkPeer", !.peer = p, !.peer_id = id]
RetSome(p) == [NoCall EXCEPT !.tag = "Some", !.peer = p]
RetNone == [NoCall EXCEPT !.tag = "None"]
RetPanic == [NoCall EXCEPT !.tag = "Panic"]
RetUnit == [NoCall EXCEPT !.tag = "Unit"]

\* a ChannelLimit as a return value, or the panic in its place
RetLimit(limit) == [NoCall EXCEPT !.tag = limit.tag, !.code = limit.n]
\* a u32 or usize as a return value
RetInt(v) == [NoCall EXCEPT !.tag = "Int", !.code = v]

\* Ok(Option<Event>) as a return value
OkOption(event) == IF event = None THEN RetOkNone ELSE RetOkEvent(event[1])

\* --------------------------------------------------- event translation
\* Event::from_sys_event(sys_event, host): None for ENET_EVENT_TYPE_NONE,
\* otherwise the event with the PeerID of the native peer it concerns
from_sys_event(sys_event) ==
    IF sys_event.type = "NONE" THEN None
    ELSE Some([peer_id |-> peer_id(sys_event.peer),
               kind |-> CASE sys_event.type = "CONNECT" -> "Connect"
                          [] sys_event.type = "RECEIVE" -> "Receive"
                          [] sys_event.type = "DISCONNECT" -> "Disconnect"])

\* ------------------------------------------------------ deferred cleanup
\* The host part of the state, passed through the handlers
HostState == [disconnect_drop |-> disconnect_drop, data |-> data, panic |-> FALSE]

drop_disconnected(h) ==
    IF h.disconnect_drop # None
    THEN LET idx == h.disconnect_drop[1]
             p == peer_mut(idx)
         IN  IF p = None
             THEN [h EXCEPT !.disconnect_drop = None, !.panic = TRUE]
             ELSE [h EXCEPT !.disconnect_drop = None,
                            !.data = set_data(h.data, p[1], None)]
    ELSE h

\* process_event without the call of drop_disconnected
process_event_no_cleanup(h, sys_event) ==
    LET event == from_sys_event(sys_event)
    IN  IF event # None /\ event[1].kind = "Disconnect"
        THEN [h |-> [h EXCEPT !.disconnect_drop = Some(event[1].peer_id)],
              event |-> event]
        ELSE [h |-> h, event |-> event]

\* process_event clearing the payload of a disconnecting peer at once, as
\* well as deferring it
process_event_eager_clear(h, sys_event) ==
    LET h1 == drop_disconnected(h)
        event == from_sys_event(sys_event)
    IN  IF h1.panic
        THEN [h |-> h1, event |-> None]
        ELSE IF event # None /\ event[1].kind = "Disconnect"
             THEN [h |-> [h1 EXCEPT !.disconnect_drop = Some(event[1].peer_id),
                                    !.data = set_data(h1.data, sys_event.peer, None)],
                   event |-> event]
             ELSE [h |-> h1, event |-> event]

process_event(h, sys_event) ==
    LET h1 == drop_disconnected(h)
        event == from_sys_event(sys_event)
    IN  IF h1.panic
        THEN [h |-> h1, event |-> None]
        ELSE IF event # None /\ event[1].kind = "Disconnect"
             THEN [h |-> [h1 EXCEPT !.disconnect_drop = Some(event[1].peer_id)],
                   event |-> event]
             ELSE [h |-> h1, event |-> event]

\* ---------------------------------------------------------- the handlers
\* Each handler maps the host state h and the table state ps to the set of
\* its possible outcomes [h, peers, call], one per answer of the transport.

\* Host::service with the arm for a result code of 0 returning an error
service_zero_is_error(h, ps) ==
    {LET r == process_event(h, out.ev)
         seen == [res |-> out.res, ev |-> out.ev, marker |-> h.disconnect_drop,
                  polls |-> 1]
     IN  IF out.res > 0
         THEN [h |-> r.h, peers |-> out.peers, seen |-> seen,
               ret |-> IF r.h.panic THEN RetPanic ELSE OkOption(r.event)]
         ELSE [h |-> h, peers |-> out.peers, seen |-> seen, ret |-> RetErr(out.res)] :
     out \in enet_host_service(ps)}

\* Host::service: the transport is polled once, then the match on its
\* result code
service(h, ps) ==
    {LET r == process_event(h, out.ev)
         seen == [res |-> out.res, ev |-> out.ev, marker |-> h.disconnect_drop,
                  polls |-> 1]
     IN  IF out.res > 0
         THEN [h |-> r.h, peers |-> out.peers, seen |-> seen,
               ret |-> IF r.h.panic THEN RetPanic ELSE OkOption(r.event)]
         ELSE IF out.res = 0
         THEN [h |-> h, peers |-> out.peers, seen |-> seen, ret |-> RetOkNone]
         ELSE [h |-> h, peers |-> out.peers, seen |-> seen, ret |-> RetErr(out.res)] :
     out \in enet_host_service(ps)}

\* Host::check_events translating the event itself, without process_event
check_events_own_translation(h, ps) ==
    {LET event == from_sys_event(out.ev)
         seen == [res |-> out.res, ev |-> out.ev, marker |-> h.disconnect_drop,
                  polls |-> 1]
     IN  IF out.res > 0
         THEN [h |-> h, peers |-> out.peers, seen |-> seen, ret |-> OkOption(event)]
         ELSE IF out.res = 0
         THEN [h |-> h, peers |-> out.peers, seen |-> seen, ret |-> RetOkNone]
         ELSE [h |-> h, peers |-> out.peers, seen |-> seen, ret |-> RetErr(out.res)] :
     out \in enet_host_check_events(ps)}

\* Host::check_events
check_events(h, ps) ==
    {LET r == process_event(h, out.ev)
         seen == [res |-> out.res, ev |-> out.ev, marker |-> h.disconnect_drop,
                  polls |-> 1]
     IN  IF out.res > 0
         THEN [h |-> r.h, peers |-> out.peers, seen |-> seen,
               ret |-> IF r.h.panic THEN RetPanic ELSE OkOption(r.event)]
         ELSE IF out.res = 0
         THEN [h |-> h, peers |-> out.peers, seen |-> seen, ret |-> RetOkNone]
         ELSE [h |-> h, peers |-> out.peers, seen |-> seen, ret |-> RetErr(out.res)] :
     out \in enet_host_check_events(ps)}

\* Host::connect without the null check on the handle
connect_unchecked(h, ps) ==
    {[h |-> h, peers |-> out.peers, handle |-> out.res,
      ret |-> RetOkPeer(out.res, peer_id(out.res))] :
     out \in enet_host_connect(ps)}

\* Host::connect
connect(h, ps) ==
    {[h |-> h, peers |-> out.peers, handle |-> out.res,
      ret |-> IF out.res = NullPeer THEN RetErr(0)
              ELSE RetOkPeer(out.res, peer_id(out.res))] :
     out \in enet_host_connect(ps)}

\* Index::index / IndexMut::index_mut: the slot, or a panic
index(idx) == IF peer(idx) = None THEN RetPanic ELSE RetSome(peer(idx)[1])

index_mut(idx) == IF peer_mut(idx) = None THEN RetPanic ELSE RetSome(peer_mut(idx)[1])

\* for peer in self.peers_mut() { peer.set_data(None) }
ClearAll(d, ps) == [a \in DOMAIN d |-> IF a \in ps THEN None ELSE d[a]]

\* Drop::drop with the native host destroyed before the payloads are cleared
drop_destroy_first(d) ==
    [data |-> ClearAll(d, peers_mut), atDestroy |-> d]

\* Drop::drop: clear every slot's payload, then destroy the native host.
\* atDestroy is the payload table enet_host_destroy finds.
drop(d) ==
    LET cleared == ClearAll(d, peers_mut)
    IN  [data |-> cleared, atDestroy |-> cleared]

\* Host::set_channel_limit: the limits the transport stores afterwards and
\* the wire value it was handed
set_channel_limit(cfg, max_channel_count) ==
    [cfg |-> enet_host_channel_limit(cfg, to_enet_val(max_channel_count)),
     sent |-> <<to_enet_val(max_channel_count)>>]

\* Host::channel_limit
channel_limit(cfg) == from_enet_val(cfg.channelLimit)

\* Host::set_bandwith_limits with the two limits handed over in the wrong
\* order
set_bandwith_limits_swapped(cfg, incoming_bandwith, outgoing_bandwidth) ==
    [cfg |-> enet_host_bandwidth_limit(cfg, to_enet_u32(outgoing_bandwidth),
                                       to_enet_u32(incoming_bandwith)),
     sent |-> <<to_enet_u32(outgoing_bandwidth), to_enet_u32(incoming_bandwith)>>]

\* Host::set_bandwith_limits
set_bandwith_limits(cfg, incoming_bandwith, outgoing_bandwidth) ==
    [cfg |-> enet_host_bandwidth_limit(cfg, to_enet_u32(incoming_bandwith),
                                       to_enet_u32(outgoing_bandwidth)),
     sent |-> <<to_enet_u32(incoming_bandwith), to_enet_u32(outgoing_bandwidth)>>]

\* Host::incoming_bandwidth
incoming_bandwidth(cfg) == cfg.incomingBandwidth

\* Host::outgoing_bandwidth
outgoing_bandwidth(cfg) == cfg.outgoingBandwidth

\* ------------------------------------------------------------ the state
\* the slots that hold a payload in d and none in e
Cleared(d, e) == {a \in DOMAIN d : d[a] # None /\ e[a] = None}

Called(name, arg, ret) == [ret EXCEPT !.name = name, !.arg = arg]

IsPoll(call) == call.name \in {"service", "check_events"}

Init ==
    /\ alive = TRUE
    /\ peerCount \in 1..MaxPeers
    /\ peerState = [a \in Slots(peerCount) |-> "disconnected"]
    /\ data = [a \in Slots(peerCount) |-> None]
    /\ disconnect_drop = None
    /\ last = NoCall
    /\ lastPollDisc = None
    /\ owner = [a \in Slots(peerCount) |-> "none"]
    /\ discEvt = [a \in Slots(peerCount) |-> FALSE]
    /\ issued = {}
    /\ config = enet_host_create

\* the slot at address a is handed to a new occupant by a transport call
\* that turns the table from ps into qs
HandedOver(ps, qs, a) == ps[a] = "disconnected" /\ qs[a] # "disconnected"

\* the slot at address a is given to the caller for a new occupant: connect
\* returns it, or a poll call returns the Connect event of a connection the
\* transport accepted
GivenToCaller(ps, ret, a) ==
    \/ ret.tag = "OkPeer" /\ ret.peer = a
    \/ /\ ret.tag = "OkEvent" /\ ret.kind = "Connect"
       /\ PeerAddr(ret.peer_id) = a /\ ps[a] # "connecting"

\* provenance of the payloads after a call that returns ret, leaves payloads
\* d and turns the table from ps into qs
OwnerAfter(d, ps, qs, ret) ==
    [a \in DOMAIN d |->
        IF d[a] = None THEN "none"
        ELSE IF HandedOver(ps, qs, a) /\ owner[a] = "cur" THEN "prev"
        ELSE IF GivenToCaller(ps, ret, a) /\ owner[a] = "occ" THEN "prev"
        ELSE owner[a]]

IsDisconnectFor(ret, a) ==
    ret.tag = "OkEvent" /\ ret.kind = "Disconnect" /\ PeerAddr(ret.peer_id) = a

\* The effect of one call of a polling method with outcome o.
PollEffect(name, o) ==
    /\ peerState' = o.peers
    /\ disconnect_drop' = o.h.disconnect_drop
    /\ data' = o.h.data
    /\ last' = [Called(name, 0, o.ret) EXCEPT
                   !.res = o.seen.res, !.ev = o.seen.ev,
                   !.marker = o.seen.marker, !.polls = o.seen.polls,
                   !.cleared = Cleared(data, o.h.data)]
    /\ lastPollDisc' = IF o.ret.tag = "OkEvent" /\ o.ret.kind = "Disconnect"
                       THEN Some(o.ret.peer_id) ELSE None
    /\ owner' = OwnerAfter(o.h.data, peerState, o.peers, o.ret)
    /\ discEvt' = [a \in DOMAIN discEvt |->
           IF IsDisconnectFor(o.ret, a) THEN TRUE
           ELSE IF HandedOver(peerState, o.peers, a) THEN FALSE
           ELSE discEvt[a]]
    /\ issued' = IF o.ret.tag = "OkEvent"
                 THEN issued \cup {o.ret.peer_id} ELSE issued
    /\ UNCHANGED <<config, alive, peerCount>>

\* host.service(timeout)
Service ==
    /\ alive
    /\ \E o \in service(HostState, peerState) : PollEffect("service", o)

\* host.check_events()
CheckEvents ==
    /\ alive
    /\ \E o \in check_events(HostState, peerState) : PollEffect("check_events", o)

\* host.connect(address, channel_count, user_data)
Connect ==
    /\ alive
    /\ \E o \in connect(HostState, peerState) :
         /\ peerState' = o.peers
         /\ disconnect_drop' = o.h.disconnect_drop
         /\ data' = o.h.data
         /\ last' = [Called("connect", 0, o.ret) EXCEPT
                        !.handle = o.handle,
                        !.cleared = Cleared(data, o.h.data)]
         /\ owner' = OwnerAfter(o.h.data, peerState, o.peers, o.ret)
         /\ discEvt' = [a \in DOMAIN discEvt |->
                IF HandedOver(peerState, o.peers, a) THEN FALSE ELSE discEvt[a]]
         /\ issued' = IF o.ret.tag = "OkPeer"
                      THEN issued \cup {o.ret.peer_id} ELSE issued
    /\ UNCHANGED <<config, alive, peerCount, lastPollDisc>>

\* host.peer(id)
PeerLookup ==
    /\ alive
    /\ \E id \in PeerIDs :
         last' = Called("peer", id,
                        IF peer(id) = None THEN RetNone ELSE RetSome(peer(id)[1]))
    /\ UNCHANGED <<config, alive, peerCount, peerState, data, disconnect_drop,
                   lastPollDisc, owner, discEvt, issued>>

\* host[id]
IndexRead ==
    /\ alive
    /\ \E id \in PeerIDs : last' = Called("index", id, index(id))
    /\ UNCHANGED <<config, alive, peerCount, peerState, data, disconnect_drop,
                   lastPollDisc, owner, discEvt, issued>>

\* the caller's write through a looked-up slot: set_data(value) on the
\* reference `found` holds, if it holds one
WriteThrough(found, value) ==
    IF found.tag = "Some"
    THEN /\ data' = set_data(data, found.peer, value)
         /\ owner' = [owner EXCEPT ![found.peer] =
                         IF value = None THEN "none"
                         ELSE IF peerState[found.peer] = "connected" THEN "occ"
                         ELSE "cur"]
    ELSE UNCHANGED <<data, owner>>

\* if let Some(p) = host.peer_mut(id) { p.set_data(value) }
PeerMutSetData ==
    /\ alive
    /\ \E id \in PeerIDs, value \in PayloadArgs :
         LET found == IF peer_mut(id) = None THEN RetNone
                      ELSE RetSome(peer_mut(id)[1])
         IN  /\ last' = Called("peer_mut", id, found)
             /\ WriteThrough(found, value)
    /\ UNCHANGED <<config, alive, peerCount, peerState, disconnect_drop, lastPollDisc,
                   discEvt, issued>>

\* host[id].set_data(value)
IndexWrite ==
    /\ alive
    /\ \E id \in PeerIDs, value \in PayloadArgs :
         /\ last' = Called("index_mut", id, index_mut(id))
         /\ WriteThrough(index_mut(id), value)
    /\ UNCHANGED <<config, alive, peerCount, peerState, disconnect_drop, lastPollDisc,
                   discEvt, issued>>

\* host.flush(): network output only
Flush ==
    /\ alive
    /\ last' = Called("flush", 0, RetUnit)
    /\ UNCHANGED <<config, alive, peerCount, peerState, data, disconnect_drop,
                   lastPollDisc, owner, discEvt, issued>>

\* the Host value goes out of scope
Drop ==
    /\ alive
    /\ alive' = FALSE
    /\ data' = drop(data).data
    /\ owner' = [a \in DOMAIN owner |->
                    IF drop(data).data[a] = None THEN "none" ELSE owner[a]]
    /\ last' = [Called("drop", 0, RetUnit) EXCEPT
                   !.atDestroy = Some(drop(data).atDestroy),
                   !.cleared = Cleared(data, drop(data).data)]
    /\ UNCHANGED <<config, peerCount, peerState, disconnect_drop,
                   lastPollDisc, discEvt, issued>>

\* host.set_channel_limit(max_channel_count)
SetChannelLimit ==
    /\ alive
    /\ \E limit \in ChannelLimits :
         /\ config' = set_channel_limit(config, limit).cfg
         /\ last' = [Called("set_channel_limit", 0, RetUnit) EXCEPT
                        !.given = <<limit>>,
                        !.sent = set_channel_limit(config, limit).sent]
    /\ UNCHANGED <<alive, peerCount, peerState, data, disconnect_drop,
                   lastPollDisc, owner, discEvt, issued>>

\* host.channel_limit(); its record keeps the limit the call just before
\* it set, if that call was set_channel_limit
ChannelLimitGet ==
    /\ alive
    /\ last' = [Called("channel_limit", 0, RetLimit(channel_limit(config))) EXCEPT
                   !.given = IF last.name = "set_channel_limit"
                             THEN last.given ELSE <<>>]
    /\ UNCHANGED <<config, alive, peerCount, peerState, data, disconnect_drop,
                   lastPollDisc, owner, discEvt, issued>>

\* host.set_bandwith_limits(incoming_bandwith, outgoing_bandwidth)
SetBandwithLimits ==
    /\ alive
    /\ \E incoming \in IncomingLimits, outgoing \in OutgoingLimits :
         /\ config' = set_bandwith_limits(config, incoming, outgoing).cfg
         /\ last' = [Called("set_bandwith_limits", 0, RetUnit) EXCEPT
                        !.given = <<incoming, outgoing>>,
                        !.sent = set_bandwith_limits(config, incoming, outgoing).sent]
    /\ UNCHANGED <<alive, peerCount, peerState, data, disconnect_drop,
                   lastPollDisc, owner, discEvt, issued>>

\* host.incoming_bandwidth()
IncomingBandwidth ==
    /\ alive
    /\ last' = Called("incoming_bandwidth", 0, RetInt(incoming_bandwidth(config)))
    /\ UNCHANGED <<config, alive, peerCount, peerState, data, disconnect_drop,
                   lastPollDisc, owner, discEvt, issued>>

\* host.outgoing_bandwidth()
OutgoingBandwidth ==
    /\ alive
    /\ last' = Called("outgoing_bandwidth", 0, RetInt(outgoing_bandwidth(config)))
    /\ UNCHANGED <<config, alive, peerCount, peerState, data, disconnect_drop,
                   lastPollDisc, owner, discEvt, issued>>

\* host.peer_count()
PeerCount ==
    /\ alive
    /\ last' = Called("peer_count", 0, RetInt(peer_count))
    /\ UNCHANGED <<config, alive, peerCount, peerState, data, disconnect_drop,
                   lastPollDisc, owner, discEvt, issued>>

\* the timeout argument of host.service(timeout): what the call hands to
\* enet_host_service for it.  The answers of the transport do not depend on
\* the timeout, only how long it waits for one.
ServiceTimeout ==
    /\ alive
    /\ \E timeout \in Durations :
         last' = [Called("service_timeout", 0, RetUnit) EXCEPT
                     !.given = <<timeout>>,
                     !.sent = <<service_timeout(timeout)>>]
    /\ UNCHANGED <<config, alive, peerCount, peerState, data, disconnect_drop,
                   lastPollDisc, owner, discEvt, issued>>

\* limit.to_enet_val()
ToEnetVal ==
    /\ alive
    /\ \E limit \in AllChannelLimits :
         last' = [Called("to_enet_val", 0, RetInt(to_enet_val(limit))) EXCEPT
                     !.given = <<limit>>]
    /\ UNCHANGED <<config, alive, peerCount, peerState, data, disconnect_drop,
                   lastPollDisc, owner, discEvt, issued>>

\* ChannelLimit::from_enet_val(enet_val)
FromEnetVal ==
    /\ alive
    /\ \E enet_val \in WireValues :
         last' = Called("from_enet_val", enet_val, RetLimit(from_enet_val(enet_val)))
    /\ UNCHANGED <<config, alive, peerCount, peerState, data, disconnect_drop,
                   lastPollDisc, owner, discEvt, issued>>

\* The life of a host: polling, connecting, attaching payloads, dropping.
Next ==
    \/ Service
    \/ CheckEvents
    \/ Connect
    \/ PeerMutSetData
    \/ Drop

Spec == Init /\ [][Next]_vars

\* Access to the peer table of a host that has originated connections.
NextAccess ==
    \/ PeerLookup
    \/ IndexRead
    \/ PeerMutSetData
    \/ IndexWrite
    \/ Connect

SpecAccess == Init /\ [][NextAccess]_vars

\* A host that only accepts connections: the two poll calls and the payloads.
NextPoll ==
    \/ Service
    \/ CheckEvents
    \/ PeerMutSetData

SpecPoll == Init /\ [][NextPoll]_vars

\* Configuring a host that carries payloads: the limit setters and their
\* getters.
NextConfig ==
    \/ SetChannelLimit
    \/ ChannelLimitGet
    \/ SetBandwithLimits
    \/ IncomingBandwidth
    \/ OutgoingBandwidth
    \/ PeerMutSetData

SpecConfig == Init /\ [][NextConfig]_vars

\* Every operation that is not meant to touch a payload or the marker,
\* between poll calls of a host that carries payloads.
NextFrame ==
    \/ Service
    \/ CheckEvents
    \/ PeerMutSetData
    \/ Flush
    \/ SetChannelLimit
    \/ ChannelLimitGet
    \/ SetBandwithLimits
    \/ IncomingBandwidth
    \/ OutgoingBandwidth
    \/ PeerCount

SpecFrame == Init /\ [][NextFrame]_vars

\* The conversions between the caller's limits and durations and the
\* transport's wire values, over their whole input range.
NextConv ==
    \/ ServiceTimeout
    \/ ToEnetVal
    \/ FromEnetVal
    \/ SetChannelLimit
    \/ ChannelLimitGet

SpecConv == Init /\ [][NextConv]_vars

\* ----------------------------------------------------------- properties

\* C1: after a poll call has returned a Disconnect event for peer p, the
\* very next poll call leaves p's payload empty, whatever it returns (an
\* event, no event, or an error).
C1_NextPollClearsPayload ==
    [][(IsPoll(last') /\ lastPollDisc # None)
          => data'[PeerAddr(lastPollDisc[1])] = None]_vars

\* C2: within every poll call the pending cleanup is done before the
\* transport is polled: the transport's poll never runs while a
\* pending-cleanup marker is set.
C2_CleanupBeforeTransportPoll ==
    IsPoll(last) => last.marker = None

\* C3: the deferred cleanup never clears a payload on behalf of a previous
\* occupant.  When a slot is handed to a new connection while the cleanup
\* for its previous occupant is pending, the previous payload is already
\* gone, and a payload attached to the present occupant of a slot survives
\* every poll call until that occupant's own Disconnect event has been
\* returned.
C3_CurrentOccupantPayloadSurvives ==
    [][\A a \in Slots(peerCount) :
          /\ (HandedOver(peerState, peerState', a)
                /\ disconnect_drop = Some(peer_id(a)))
                => data[a] = None
          /\ (IsPoll(last') /\ ~discEvt[a]
                /\ (owner[a] = "cur"
                      \/ (owner[a] = "occ" /\ peerState[a] = "connected")))
                => data'[a] = data[a]]_vars

\* C4: at most one pending-cleanup PeerID exists, and when a poll call
\* returns an event the marker that was pending when the call started has
\* been resolved: that peer's payload is cleared, and the marker is none
\* unless the returned event is a Disconnect, in which case it is exactly
\* that event's PeerID.
C4_MarkerResolvedBeforeEvent ==
    /\ Len(disconnect_drop) <= 1
    /\ (IsPoll(last) /\ last.tag = "OkEvent")
          => /\ last.marker # None => data[PeerAddr(last.marker[1])] = None
             /\ disconnect_drop = IF last.kind = "Disconnect"
                                  THEN Some(last.peer_id) ELSE None

\* C4 witness: a poll call that started with a pending marker whose peer
\* still carried a payload has returned an event other than a Disconnect.
C4_Witness ==
    /\ IsPoll(last) /\ last.tag = "OkEvent" /\ last.kind # "Disconnect"
    /\ last.marker # None
    /\ last.cleared = {PeerAddr(last.marker[1])}

\* C5: when a poll call returns a Disconnect event for peer p, the marker is
\* p when the call returns and p's payload is the payload it had before the
\* call.
C5_DisconnectKeepsPayload ==
    [][(IsPoll(last') /\ last'.tag = "OkEvent" /\ last'.kind = "Disconnect")
          => /\ disconnect_drop' = Some(last'.peer_id)
             /\ data'[PeerAddr(last'.peer_id)] = data[PeerAddr(last'.peer_id)]]_vars

\* C6: the transport's result code r decides the outcome of a poll call:
\* r < 0 returns an Error carrying exactly r, r = 0 returns Ok(None), r > 0
\* returns the translation of the native event after the deferred cleanup
\* has run; the transport is polled exactly once per call.
C6_ResultCodeDecidesOutcome ==
    IsPoll(last) =>
        /\ last.polls = 1
        /\ last.res < 0 => (last.tag = "Err" /\ last.code = last.res)
        /\ last.res = 0 => last.tag = "OkNone"
        /\ last.res > 0 =>
              /\ last.tag = "OkEvent"
              /\ PeerAddr(last.peer_id) = last.ev.peer
              /\ last.kind = (CASE last.ev.type = "CONNECT" -> "Connect"
                                [] last.ev.type = "RECEIVE" -> "Receive"
                                [] last.ev.type = "DISCONNECT" -> "Disconnect")
              /\ last.marker # None => data[PeerAddr(last.marker[1])] = None

\* C6 witness: a poll call has returned "no event" for a result code of 0
\* while a cleanup was pending.
C6_Witness ==
    /\ IsPoll(last) /\ last.res = 0 /\ last.tag = "OkNone"
    /\ last.marker # None

\* C7: every PeerID handed out is smaller than peer_count() and resolves
\* through peer(id) to its slot in every later state, also after the peer's
\* Disconnect event and the deferred cleanup; peer_count() never changes.
C7_IssuedIdsStayValid ==
    /\ [](\A id \in issued :
             /\ id < peer_count
             /\ peer(id) = Some(PeerAddr(id)))
    /\ [][peer_count' = peer_count]_vars

\* C7 witness: the highest slot of a full-size table has been handed out,
\* disconnected and cleaned up.
C7_Witness ==
    /\ peerCount = MaxPeers
    /\ (MaxPeers - 1) \in issued
    /\ discEvt[PeerAddr(MaxPeers - 1)]
    /\ disconnect_drop = None
    /\ IsPoll(last) /\ last.cleared = {PeerAddr(MaxPeers - 1)}

\* C8: peer(id) and peer_mut(id) return nothing exactly when
\* id >= peer_count() and the slot at index id otherwise; host[id] panics
\* for exactly the ids for which peer(id) returns nothing; a failed lookup
\* or a panic changes no host state.
C8_LookupBounds ==
    [][last'.name \in {"peer", "peer_mut", "index", "index_mut"} =>
          /\ last'.name \in {"peer", "peer_mut"} =>
                /\ last'.tag = "None" <=> last'.arg >= peer_count
                /\ last'.tag # "None" =>
                      (last'.tag = "Some" /\ last'.peer = PeerAddr(last'.arg))
          /\ last'.name \in {"index", "index_mut"} =>
                /\ last'.tag = "Panic" <=> peer(last'.arg) = None
                /\ last'.tag # "Panic" =>
                      (last'.tag = "Some" /\ last'.peer = PeerAddr(last'.arg))
          /\ last'.tag \in {"None", "Panic"} =>
                UNCHANGED <<alive, peerCount, peerState, data, disconnect_drop>>]_vars

\* C8 witness: indexing a host that carries a payload with the first
\* out-of-range id has panicked.
C8_Witness ==
    /\ last.name = "index_mut" /\ last.tag = "Panic" /\ last.arg = peerCount
    /\ \E a \in Slots(peerCount) : data[a] # None

\* C9: connect fails exactly when the transport returns a null handle, and
\* then returns Error(0) and changes neither the marker nor any payload; on
\* success the slot is still connecting when connect returns, and only a
\* poll call that returns its Connect event reports it connected.
C9_ConnectFailure ==
    [][/\ last'.name = "connect" =>
             /\ last'.tag = "Err" <=> last'.handle = NullPeer
             /\ last'.tag = "Err" =>
                   /\ last'.code = 0
                   /\ UNCHANGED <<disconnect_drop, data>>
             /\ last'.tag # "Err" =>
                   /\ last'.tag = "OkPeer"
                   /\ last'.peer = last'.handle
                   /\ peerState'[last'.peer] = "connecting"
       /\ \A a \in Slots(peerCount) :
             (peerState[a] = "connecting" /\ peerState'[a] = "connected") =>
                 /\ IsPoll(last') /\ last'.tag = "OkEvent"
                 /\ last'.kind = "Connect" /\ PeerAddr(last'.peer_id) = a]_vars

\* C9 witness: connect has failed on a host with a pending cleanup and an
\* attached payload.
C9_Witness ==
    /\ last.name = "connect" /\ last.tag = "Err"
    /\ disconnect_drop # None
    /\ \E a \in Slots(peerCount) : data[a] # None

\* C10: dropping the host clears the payload of every slot of the table and
\* only then destroys the native host: no payload is attached when
\* enet_host_destroy runs.
C10_DropClearsBeforeDestroy ==
    ~alive =>
        /\ last.name = "drop" /\ last.atDestroy # None
        /\ \A a \in Slots(peerCount) :
              last.atDestroy[1][a] = None /\ data[a] = None

\* C10 witness: a host with a pending cleanup has been dropped and the drop
\* cleared the payload of every slot of a full-size table.
C10_Witness ==
    /\ ~alive /\ peerCount = MaxPeers
    /\ disconnect_drop # None
    /\ last.cleared = Slots(peerCount)

\* C11: set_channel_limit(Maximum) followed by channel_limit() returns
\* Maximum, never Limited(0), and neither call panics.
C11_MaximumRoundTrip ==
    /\ last.name = "set_channel_limit" => last.tag = "Unit"
    /\ (last.name = "channel_limit" /\ last.given = <<Maximum>>)
          => (last.tag = "Maximum" /\ last.code = 0)

\* C11 witness: channel_limit() has answered right after
\* set_channel_limit(Maximum) on a host that carries a payload.
C11_Witness ==
    /\ last.name = "channel_limit" /\ last.given = <<Maximum>>
    /\ last.tag = "Maximum"
    /\ \E a \in Slots(peerCount) : data[a] # None

\* C12: set_bandwidth_limits(incoming, outgoing) forwards both limits
\* unchanged, Unlimited as 0 and Limited(n) as n, so that afterwards
\* incoming_bandwidth() returns a and outgoing_bandwidth() returns b for
\* Limited(a), Limited(b) (1000 and 2000), until the limits are set again;
\* the call changes no peer payload and not the marker.
C12_BandwidthLimitsForwarded ==
    [][/\ last'.name = "set_bandwith_limits" =>
             /\ \A i \in 1..2 :
                   last'.sent[i] = IF last'.given[i].tag = "Unlimited" THEN 0
                                   ELSE last'.given[i].n
             /\ config'.incomingBandwidth = last'.sent[1]
             /\ config'.outgoingBandwidth = last'.sent[2]
             /\ UNCHANGED <<data, disconnect_drop>>
       /\ last'.name # "set_bandwith_limits" =>
             /\ config'.incomingBandwidth = config.incomingBandwidth
             /\ config'.outgoingBandwidth = config.outgoingBandwidth
       /\ last'.name = "incoming_bandwidth" =>
             (last'.tag = "Int" /\ last'.code = config.incomingBandwidth)
       /\ last'.name = "outgoing_bandwidth" =>
             (last'.tag = "Int" /\ last'.code = config.outgoingBandwidth)]_vars

\* C12 witness: after limits of 1000 and 2000 were set on a host with a
\* pending cleanup and an attached payload, outgoing_bandwidth() has
\* returned 2000 while the incoming limit stored is 1000.
C12_Witness ==
    /\ last.name = "outgoing_bandwidth" /\ last.code = 2000
    /\ config.incomingBandwidth = 1000
    /\ disconnect_drop # None
    /\ \E a \in Slots(peerCount) : data[a] # None

\* C13: service and check_events differ only in the timeout handed to the
\* transport: from the same host state, for the same result code and native
\* event of the transport, both return the same value and leave the same
\* marker and the same payloads.
C13_PollsAgree ==
    \A o1 \in service(HostState, peerState),
       o2 \in check_events(HostState, peerState) :
        (o1.seen.res = o2.seen.res /\ o1.seen.ev = o2.seen.ev) =>
            /\ o1.ret = o2.ret
            /\ o1.h.disconnect_drop = o2.h.disconnect_drop
            /\ o1.h.data = o2.h.data

\* C13 witness: after a poll call returned a Disconnect event for a peer
\* that carries a payload, the transport can answer service and
\* check_events with the same further event.
C13_Witness ==
    /\ IsPoll(last) /\ last.kind = "Disconnect"
    /\ disconnect_drop # None
    /\ data[PeerAddr(disconnect_drop[1])] # None
    /\ \E o1 \in service(HostState, peerState),
          o2 \in check_events(HostState, peerState) :
           /\ o1.seen.res > 0 /\ o1.seen.ev = o2.seen.ev
           /\ o2.ret.tag = "OkEvent"
           /\ o2.h.data # data

\* C14: service(timeout) hands the transport a timeout of 0 exactly when
\* timeout is shorter than one millisecond; for every timeout of at least
\* one millisecond the value handed over is non-zero and equals the
\* timeout's whole number of milliseconds, also when that number does not
\* fit in 32 bits.
C14_TimeoutInMilliseconds ==
    last.name = "service_timeout" =>
        LET timeout == last.given[1]
            handed == last.sent[1]
            sub_millisecond == timeout.hi = 0 /\ timeout.lo = 0
        IN  /\ handed = 0 <=> sub_millisecond
            /\ ~sub_millisecond =>
                  /\ handed # 0
                  /\ timeout.hi = 0 /\ handed = timeout.lo

\* C15: channel_limit() never returns Limited(0): a stored wire value of 0
\* is a panic, the protocol's maximum channel count is reported as Maximum
\* and every other wire value n as Limited(n); set_channel_limit sends
\* Maximum as 0 and Limited(n) as n.
C15_ChannelLimitWireValues ==
    /\ last.name \in {"from_enet_val", "channel_limit"} =>
          ~(last.tag = "Limited" /\ last.code = 0)
    /\ last.name = "from_enet_val" =>
          /\ last.arg = 0 => last.tag = "Panic"
          /\ last.arg = MAX_COUNT => last.tag = "Maximum"
          /\ last.arg \notin {0, MAX_COUNT} =>
                (last.tag = "Limited" /\ last.code = last.arg)
    /\ last.name = "channel_limit" =>
          /\ config.channelLimit = MAX_COUNT => last.tag = "Maximum"
          /\ config.channelLimit \notin {0, MAX_COUNT} =>
                (last.tag = "Limited" /\ last.code = config.channelLimit)
    /\ last.name = "to_enet_val" =>
          last.code = IF last.given[1].tag = "Maximum" THEN 0
                      ELSE last.given[1].n
    /\ last.name = "set_channel_limit" =>
          last.sent = <<IF last.given[1].tag = "Maximum" THEN 0
                        ELSE last.given[1].n>>

\* C15 witness: the conversion of a stored wire value of 0 has panicked.
C15_Witness ==
    last.name = "from_enet_val" /\ last.arg = 0 /\ last.tag = "Panic"

\* C16: for every slot index i below peer_count(), resolving the native
\* handle of slot i yields PeerID i, and a successful connect returns a
\* PeerID id and a peer reference such that peer(id) is that same slot, so
\* the payload set through the reference is the one read through peer(id).
C16_PeerIdRoundTrip ==
    /\ \A i \in 0..(peer_count - 1) :
          /\ peer_id(PeerAddr(i)) = i
          /\ peer(peer_id(PeerAddr(i))) = Some(PeerAddr(i))
    /\ (last.name = "connect" /\ last.tag = "OkPeer") =>
          /\ last.peer = last.handle
          /\ last.peer_id < peer_count
          /\ peer(last.peer_id) = Some(last.peer)
    /\ (last.name = "peer_mut" /\ last.tag = "Some") =>
          peer(last.arg) = Some(last.peer)

\* C16 witness: connect has returned the last slot of a full-size table,
\* and a payload is attached to that slot.
C16_Witness ==
    /\ peerCount = MaxPeers
    /\ last.name = "connect" /\ last.tag = "OkPeer"
    /\ last.peer_id = MaxPeers - 1
    /\ data[last.peer] # None

\* C17: whenever a slot p is handed to a new occupant, by a Connect event
\* for p or by connect returning p, the payload read from p at that moment
\* is empty: a payload attached to the slot's previous occupant between its
\* Connect and Disconnect events is never observable on the new occupant.
C17_NoPayloadOfPreviousOccupant ==
    [][\A a \in Slots(peerCount) :
          (/\ last'.name \in {"service", "check_events", "connect"}
           /\ GivenToCaller(peerState, last', a)
           /\ owner[a] = "occ")
              => data'[a] = None]_vars

\* C18: a poll call changes the payload of at most one peer, the one the
\* marker names when the call starts; every other payload, that of the peer
\* named in the returned event included, stays as it is.  flush, the limit
\* setters and the read-only getters change no payload and not the marker.
C18_PayloadFrame ==
    [][/\ IsPoll(last') =>
             \A a \in Slots(peerCount) :
                 data'[a] # data[a] =>
                     (disconnect_drop = Some(peer_id(a)) /\ data'[a] = None)
       /\ last'.name \in {"flush", "set_channel_limit", "set_bandwith_limits",
                           "channel_limit", "incoming_bandwidth",
                           "outgoing_bandwidth", "peer_count"} =>
             UNCHANGED <<data, disconnect_drop>>]_vars

\* C18 witness: a poll call has cleared the payload of the peer the marker
\* named and returned a Disconnect event for another peer, which still
\* carries its payload.
C18_Witness ==
    /\ IsPoll(last) /\ last.tag = "OkEvent" /\ last.kind = "Disconnect"
    /\ last.marker # None /\ last.marker # Some(last.peer_id)
    /\ last.cleared = {PeerAddr(last.marker[1])}
    /\ data[PeerAddr(last.peer_id)] # None

\* C19: in every reachable state the marker, when set, is smaller than
\* peer_count(), so the lookup of the deferred cleanup always succeeds and
\* the "Invalid PeerID in disconnect_drop" panic is unreachable.
C19_MarkerInBounds ==
    /\ disconnect_drop # None =>
          /\ disconnect_drop[1] < peer_count
          /\ peer_mut(disconnect_drop[1]) # None
    /\ IsPoll(last) => last.tag # "Panic"

\* C19 witness: a poll call has run the deferred cleanup for the last slot
\* of a full-size table and left a new marker.
C19_Witness ==
    /\ peerCount = MaxPeers
    /\ IsPoll(last) /\ last.tag = "OkEvent"
    /\ last.marker = Some(MaxPeers - 1)
    /\ disconnect_drop # None

====
